---- MODULE Spec2Model ----
(***************************************************************************)
(* State-machine model of main() in ocr_paddle.py: the command-line       *)
(* adapter that validates an image path, acquires a PaddleOCR engine by a  *)
(* three-tier fallback, runs recognition once, normalises the result into  *)
(* one JSON object on standard output and leaves with an exit code.        *)
(*                                                                         *)
(* The OCR library is an external collaborator: the outcome of the import, *)
(* of each constructor call and of the recognition call, and the result   *)
(* object the recognition call returns, are inputs chosen from the small   *)
(* sets below.  A failing callee raises a subclass of Exception; the three *)
(* classes the handlers of main() tell apart are AttributeError,           *)
(* ImportError and "any other" (RuntimeError, TypeError).  SystemExit is   *)
(* raised by sys.exit only.                                                *)
(*                                                                         *)
(* Numbers: an engine score is a fraction in [0,1], held as an integer     *)
(* number of 1/ScoreDen units; a percentage is held in the same unit, and  *)
(* a rounded percentage as an integer number of hundredths.  Arithmetic is *)
(* exact (binary floating-point error is not modelled).                    *)
(***************************************************************************)
EXTENDS Integers, Sequences, FiniteSets, TLC

VARIABLES
    pc,               \* position of the control flow in main()
    argv,             \* sys.argv
    image_path,       \* sys.argv[1] once read
    stdout,           \* what has been written to standard output, in order
    stderr,           \* what has been written to standard error, in order
    exitCode,         \* process exit status, NoExit while running
    exc,              \* exception in flight inside the outer try block
    handledBy,        \* which top-level except clause ran
    imported,         \* the import of the library: "untried", "ok" or a class
    device,           \* local variable device
    ocr,              \* local variable ocr: "None" or the engine obtained
    attempts,         \* constructor calls made so far, as tier numbers
    tierResult,       \* per tier: "untried", "ok" or the class it raised
    ocrCalls,         \* number of calls of ocr.ocr made
    result,           \* value returned by ocr.ocr
    i,                \* loop index of the normalisation loops
    lines,            \* local variable lines
    all_text,         \* local variable all_text
    total_confidence  \* local variable total_confidence

vars == << pc, argv, image_path, stdout, stderr, exitCode, exc, handledBy,
           imported, device, ocr, attempts, tierResult, ocrCalls, result, i,
           lines, all_text, total_confidence >>

-----------------------------------------------------------------------------
(* Bounds and input sets *)

MaxLines == 2

ScoreDen == 10000

Percent == 100

Decimals == 2

Texts == {"a", "b c"}

Scores == {5, 1234, 10000}

PolyKinds == {"ndarray", "list"}

FileSystem == {"img.png"}

ArgvChoices == { <<"ocr_paddle.py">>,
                 <<"ocr_paddle.py", "img.png">>,
                 <<"ocr_paddle.py", "missing.png">>,
                 <<"ocr_paddle.py", "img.png", "extra">> }

RaisedClasses == {"AttributeError", "ImportError", "RuntimeError"}

NoExit == -1

NoExc == [cls |-> "none", msg |-> "", origin |-> "none", code |-> NoExit]

SeqUpTo(S, n) == UNION { [1..k -> S] : k \in 0..n }

Min(a, b) == IF a <= b THEN a ELSE b

-----------------------------------------------------------------------------
(* Python's exception matching *)

IsExceptionOrExit(cls) ==
    cls \in {"AttributeError", "ImportError", "RuntimeError", "TypeError", "SystemExit"}

\* isinstance(e, Exception): SystemExit derives from BaseException only
IsException(cls) == cls \in {"AttributeError", "ImportError", "RuntimeError", "TypeError"}

\* isinstance(e, ImportError)
IsImportError(cls) == cls = "ImportError"

\* isinstance(e, AttributeError)
IsAttributeError(cls) == cls = "AttributeError"

-----------------------------------------------------------------------------
(* The two output streams *)

JsonItem(obj) == [kind |-> "json", body |-> obj]

TextItem(s) == [kind |-> "text", body |-> s]

DiagStreamAsStdout == "stdout"

\* print(..., file=sys.stderr): where progress and diagnostic output goes
DiagStream == "stderr"

\* print(json.dumps(...)) without file=: the machine-readable channel
JsonStream == "stdout"

ToDiag(item) == [dest |-> DiagStream, item |-> item]

ToJson(item) == [dest |-> JsonStream, item |-> item]

\* the items of the writes ws that go to stream d, in order
Written(ws, d) ==
    LET sel == SelectSeq(ws, LAMBDA w : w.dest = d)
    IN  [k \in 1..Len(sel) |-> sel[k].item]

\* a run of print calls, in program order
WriteAll(ws) ==
    /\ stdout' = stdout \o Written(ws, "stdout")
    /\ stderr' = stderr \o Written(ws, "stderr")

\* the failure schema printed on every error path
FailureObj(err) == [success |-> FALSE, error |-> err, text |-> "", confidence |-> 0]

\* the early success object of the empty-result branch
EmptyObj == [success |-> TRUE, text |-> "", confidence |-> 0, lines |-> << >>]

MsgCut == 100

\* str(e)[:100]
Cut(s) == IF Len(s) <= MsgCut THEN s ELSE SubSeq(s, 1, MsgCut)

InstallHint == "\nRun: pip install paddleocr paddlepaddle"

\* the exception object raised by a failing step
Raise(cls, origin) ==
    [cls |-> cls, msg |-> "failure in " \o origin, origin |-> origin, code |-> NoExit]

\* sys.exit(n) raises SystemExit(n)
SysExit(n, origin) == [cls |-> "SystemExit", msg |-> "", origin |-> origin, code |-> n]

-----------------------------------------------------------------------------
(* Init: the state when main() is entered *)

Init ==
    /\ pc = "start"
    /\ argv \in ArgvChoices
    /\ image_path = ""
    /\ stdout = << >>
    /\ stderr = << >>
    /\ exitCode = NoExit
    /\ exc = NoExc
    /\ handledBy = "none"
    /\ imported = "untried"
    /\ device = ""
    /\ ocr = "None"
    /\ attempts = << >>
    /\ tierResult = [t \in 1..3 |-> "untried"]
    /\ ocrCalls = 0
    /\ result = [isNone |-> TRUE, items |-> << >>]
    /\ i = 0
    /\ lines = << >>
    /\ all_text = << >>
    /\ total_confidence = 0

locals == << device, ocr, attempts, tierResult, ocrCalls, result, i, lines,
             all_text, total_confidence >>

-----------------------------------------------------------------------------
(* Argument validation, before the try block *)

\* len(sys.argv) < 2: print the failure object, sys.exit(1) outside any try
NoArgument ==
    /\ pc = "start"
    /\ Len(argv) < 2
    /\ WriteAll(<< ToJson(JsonItem(FailureObj("No image path provided"))) >>)
    /\ exitCode' = 1
    /\ pc' = "done"
    /\ UNCHANGED << argv, image_path, exc, handledBy, imported, locals >>

\* image_path = sys.argv[1]
ReadArgument ==
    /\ pc = "start"
    /\ ~(Len(argv) < 2)
    /\ image_path' = argv[2]
    /\ pc' = "exists"
    /\ UNCHANGED << argv, stdout, stderr, exitCode, exc, handledBy, imported, locals >>

\* not os.path.exists(image_path)
ImageNotFound ==
    /\ pc = "exists"
    /\ image_path \notin FileSystem
    /\ WriteAll(<< ToJson(JsonItem(FailureObj("Image not found: " \o image_path))) >>)
    /\ exitCode' = 1
    /\ pc' = "done"
    /\ UNCHANGED << argv, image_path, exc, handledBy, imported, locals >>

ImageFound ==
    /\ pc = "exists"
    /\ image_path \in FileSystem
    /\ pc' = "import"
    /\ UNCHANGED << argv, image_path, stdout, stderr, exitCode, exc, handledBy,
                    imported, locals >>

-----------------------------------------------------------------------------
(* Inside the try block: import and engine acquisition *)

\* from paddleocr import PaddleOCR; device = 'cpu'; ocr = None
ImportLibrary ==
    /\ pc = "import"
    /\ \E outcome \in {"ok"} \cup RaisedClasses :
         /\ imported' = outcome
         /\ IF outcome = "ok"
            THEN /\ device' = "cpu"
                 /\ ocr' = "None"
                 /\ pc' = "tier1"
                 /\ exc' = exc
            ELSE /\ exc' = Raise(outcome, "import")
                 /\ pc' = "unwind"
                 /\ UNCHANGED << device, ocr >>
    /\ UNCHANGED << argv, image_path, stdout, stderr, exitCode, handledBy,
                    attempts, tierResult, ocrCalls, result, i, lines, all_text,
                    total_confidence >>

Tier1AbsorbsAttributeErrorOnly(cls) == IsAttributeError(cls)

\* tier 1 has "except AttributeError" followed by "except Exception"
Tier1Absorbs(cls) == IsAttributeError(cls) \/ IsException(cls)

\* try: ocr = PaddleOCR(..., device='gpu', ...) with its two except clauses
Tier1 ==
    /\ pc = "tier1"
    /\ attempts' = Append(attempts, 1)
    /\ \E outcome \in {"ok"} \cup RaisedClasses :
         LET e     == Raise(outcome, "tier1")
             start == ToDiag(TextItem("Attempting to initialize PaddleOCR with GPU..."))
         IN  /\ tierResult' = [tierResult EXCEPT ![1] = outcome]
             /\ IF outcome = "ok"
                THEN /\ ocr' = "gpu_tuned"
                     /\ device' = "gpu"
                     /\ WriteAll(<< start, ToDiag(TextItem("GPU initialization successful! Using GPU acceleration.")) >>)
                     /\ pc' = "tier2"
                     /\ exc' = exc
                ELSE IF Tier1Absorbs(outcome)
                THEN /\ ocr' = "None"
                     /\ device' = device
                     /\ IF IsAttributeError(outcome)
                        THEN WriteAll(<< start,
                                      ToDiag(TextItem("GPU initialization failed (compatibility issue): " \o Cut(e.msg))),
                                      ToDiag(TextItem("Falling back to CPU with compatibility mode...")) >>)
                        ELSE WriteAll(<< start,
                                      ToDiag(TextItem("GPU initialization failed: " \o Cut(e.msg))),
                                      ToDiag(TextItem("Falling back to CPU...")) >>)
                     /\ pc' = "tier2"
                     /\ exc' = exc
                ELSE /\ WriteAll(<< start >>)
                     /\ exc' = e
                     /\ pc' = "unwind"
                     /\ UNCHANGED << ocr, device >>
    /\ UNCHANGED << argv, image_path, exitCode, handledBy, imported, ocrCalls,
                    result, i, lines, all_text, total_confidence >>

NeedCpuAlways(o) == TRUE

\* if ocr is None:
NeedCpu(o) == o = "None"

Tier2AbsorbsAny(cls) == IsException(cls)

\* tier 2 has "except AttributeError" only
Tier2Absorbs(cls) == IsAttributeError(cls)

\* the GPU engine was obtained: the CPU block is skipped
SkipCpu ==
    /\ pc = "tier2"
    /\ ~NeedCpu(ocr)
    /\ pc' = "recognize"
    /\ UNCHANGED << argv, image_path, stdout, stderr, exitCode, exc, handledBy,
                    imported, locals >>

\* try: ocr = PaddleOCR(..., device='cpu', ...) except AttributeError: ...
Tier2 ==
    /\ pc = "tier2"
    /\ NeedCpu(ocr)
    /\ attempts' = Append(attempts, 2)
    /\ \E outcome \in {"ok"} \cup RaisedClasses :
         LET e == Raise(outcome, "tier2")
         IN  /\ tierResult' = [tierResult EXCEPT ![2] = outcome]
             /\ IF outcome = "ok"
                THEN /\ ocr' = "cpu_tuned"
                     /\ device' = "cpu"
                     /\ WriteAll(<< ToDiag(TextItem("CPU initialization successful.")) >>)
                     /\ pc' = "recognize"
                     /\ exc' = exc
                ELSE IF Tier2Absorbs(outcome)
                THEN /\ WriteAll(<< ToDiag(TextItem("CPU initialization failed, trying minimal config: " \o Cut(e.msg))) >>)
                     /\ pc' = "tier3"
                     /\ UNCHANGED << ocr, device, exc >>
                ELSE /\ exc' = e
                     /\ pc' = "unwind"
                     /\ UNCHANGED << ocr, device, stdout, stderr >>
    /\ UNCHANGED << argv, image_path, exitCode, handledBy, imported, ocrCalls,
                    result, i, lines, all_text, total_confidence >>

\* inside the except clause of tier 2: ocr = PaddleOCR(lang='en', device='cpu')
Tier3 ==
    /\ pc = "tier3"
    /\ attempts' = Append(attempts, 3)
    /\ \E outcome \in {"ok"} \cup RaisedClasses :
         /\ tierResult' = [tierResult EXCEPT ![3] = outcome]
         /\ IF outcome = "ok"
            THEN /\ ocr' = "cpu_minimal"
                 /\ device' = "cpu"
                 /\ WriteAll(<< ToDiag(TextItem("CPU initialization successful (minimal config).")) >>)
                 /\ pc' = "recognize"
                 /\ exc' = exc
            ELSE /\ exc' = Raise(outcome, "tier3")
                 /\ pc' = "unwind"
                 /\ UNCHANGED << ocr, device, stdout, stderr >>
    /\ UNCHANGED << argv, image_path, exitCode, handledBy, imported, ocrCalls,
                    result, i, lines, all_text, total_confidence >>

-----------------------------------------------------------------------------
(* What ocr.ocr(image_path) can return *)

\* Shape A: a dict-like OCRResult with three parallel sequences
ShapeA ==
    { [shape |-> "A", rec_texts |-> t, rec_scores |-> s, rec_polys |-> p, entries |-> << >>] :
        t \in SeqUpTo(Texts, MaxLines), s \in SeqUpTo(Scores, MaxLines),
        p \in SeqUpTo(PolyKinds, MaxLines) }

\* one element of a Shape B list: (bbox, (text, confidence)), a shorter tuple,
\* a tuple whose text_info is too short, or an object without a length
LegacyEntries ==
    { [hasLen |-> FALSE, line |-> << >>] } \cup
    { [hasLen |-> TRUE, line |-> l] :
        l \in { <<"list">>, <<"list", <<"a">> >> } \cup
              { <<b, <<t, c>> >> : b \in PolyKinds, t \in Texts, c \in Scores } }

\* Shape B: a list of such elements
ShapeB ==
    { [shape |-> "B", rec_texts |-> << >>, rec_scores |-> << >>, rec_polys |-> << >>, entries |-> e] :
        e \in SeqUpTo(LegacyEntries, MaxLines) }

\* PaddleOCR 2.x puts None in the per-image slot when nothing was detected
NoneEntry ==
    [shape |-> "None", rec_texts |-> << >>, rec_scores |-> << >>, rec_polys |-> << >>, entries |-> << >>]

NoneResult == [isNone |-> TRUE, items |-> << >>]

EmptyListResult == [isNone |-> FALSE, items |-> << >>]

Results ==
    { NoneResult, EmptyListResult } \cup
    { [isNone |-> FALSE, items |-> << img >>] : img \in ShapeA \cup ShapeB \cup { NoneEntry } }

-----------------------------------------------------------------------------
(* Recognition and result normalisation *)

\* result = ocr.ocr(image_path)
Recognize ==
    /\ pc = "recognize"
    /\ ocrCalls' = ocrCalls + 1
    /\ IF ocr = "None"
       THEN /\ exc' = Raise("AttributeError", "recognize")
            /\ pc' = "unwind"
            /\ result' = result
       ELSE \/ \E r \in Results :
                 /\ result' = r
                 /\ pc' = "checkEmpty"
                 /\ exc' = exc
            \/ \E cls \in RaisedClasses :
                 /\ exc' = Raise(cls, "recognize")
                 /\ pc' = "unwind"
                 /\ result' = result
    /\ UNCHANGED << argv, image_path, stdout, stderr, exitCode, handledBy,
                    imported, device, ocr, attempts, tierResult, i, lines,
                    all_text, total_confidence >>

\* not result or len(result) == 0
IsEmptyResult(r) == r.isNone \/ Len(r.items) = 0

\* isinstance(ocr_result, dict) or hasattr(ocr_result, 'get')
IsDictLike(img) == img.shape = "A"

\* the empty-result branch: print the early success object, sys.exit(0)
EmptyResult ==
    /\ pc = "checkEmpty"
    /\ IsEmptyResult(result)
    /\ WriteAll(<< ToJson(JsonItem(EmptyObj)) >>)
    /\ exc' = SysExit(0, "empty")
    /\ pc' = "unwind"
    /\ UNCHANGED << argv, image_path, exitCode, handledBy, imported, locals >>

\* lines = []; all_text = []; total_confidence = 0; ocr_result = result[0]
StartNormalize ==
    /\ pc = "checkEmpty"
    /\ ~IsEmptyResult(result)
    /\ lines' = << >>
    /\ all_text' = << >>
    /\ total_confidence' = 0
    /\ i' = 1
    /\ pc' = IF IsDictLike(result.items[1]) THEN "shapeA" ELSE "shapeB"
    /\ UNCHANGED << argv, image_path, stdout, stderr, exitCode, exc, handledBy,
                    imported, device, ocr, attempts, tierResult, ocrCalls, result >>

AppendTextDedup(texts, text) ==
    IF \E k \in 1..Len(texts) : texts[k] = text THEN texts ELSE Append(texts, text)

\* all_text.append(text)
AppendText(texts, text) == Append(texts, text)

\* lines.append({"text": text, "confidence": confidence * 100, "bbox": bbox})
AppendLine(ls, text, confidence, bbox) ==
    Append(ls, [text |-> text, confidence |-> confidence * Percent, bbox |-> bbox])

\* zip(rec_texts, rec_scores) stops at the shorter sequence
ZipLen(img) == Min(Len(img.rec_texts), Len(img.rec_scores))

\* one iteration of the Shape A loop
ShapeAIter ==
    /\ pc = "shapeA"
    /\ i <= ZipLen(result.items[1])
    /\ LET img        == result.items[1]
           text       == img.rec_texts[i]
           confidence == img.rec_scores[i]
       IN  /\ all_text' = AppendText(all_text, text)
           /\ total_confidence' = total_confidence + confidence
           /\ IF i <= Len(img.rec_polys)
              THEN IF img.rec_polys[i] = "ndarray"
                   THEN \* rec_polys[i].tolist()
                        /\ lines' = AppendLine(lines, text, confidence, "list")
                        /\ i' = i + 1
                        /\ UNCHANGED << pc, exc >>
                   ELSE \* a plain list has no tolist attribute
                        /\ exc' = Raise("AttributeError", "normalize")
                        /\ pc' = "unwind"
                        /\ UNCHANGED << lines, i >>
              ELSE /\ lines' = AppendLine(lines, text, confidence, "[]")
                   /\ i' = i + 1
                   /\ UNCHANGED << pc, exc >>
    /\ UNCHANGED << argv, image_path, stdout, stderr, exitCode, handledBy,
                    imported, device, ocr, attempts, tierResult, ocrCalls, result >>

\* the Shape A loop is exhausted
ShapeAEnd ==
    /\ pc = "shapeA"
    /\ ~(i <= ZipLen(result.items[1]))
    /\ pc' = "finish"
    /\ UNCHANGED << argv, image_path, stdout, stderr, exitCode, exc, handledBy,
                    imported, locals >>

\* for line in result[0] when result[0] is None: not iterable
ShapeBNotIterable ==
    /\ pc = "shapeB"
    /\ result.items[1].shape = "None"
    /\ exc' = Raise("TypeError", "normalize")
    /\ pc' = "unwind"
    /\ UNCHANGED << argv, image_path, stdout, stderr, exitCode, handledBy,
                    imported, locals >>

\* one iteration of the Shape B loop
ShapeBIter ==
    /\ pc = "shapeB"
    /\ result.items[1].shape = "B"
    /\ i <= Len(result.items[1].entries)
    /\ LET entry == result.items[1].entries[i]
           line  == entry.line
       IN  IF ~entry.hasLen
           THEN \* len(line) on an object without a length
                /\ exc' = Raise("TypeError", "normalize")
                /\ pc' = "unwind"
                /\ UNCHANGED << i, lines, all_text, total_confidence >>
           ELSE IF Len(line) >= 2 /\ Len(line[2]) >= 2
           THEN /\ all_text' = AppendText(all_text, line[2][1])
                /\ total_confidence' = total_confidence + line[2][2]
                /\ lines' = AppendLine(lines, line[2][1], line[2][2], line[1])
                /\ i' = i + 1
                /\ UNCHANGED << pc, exc >>
           ELSE /\ i' = i + 1
                /\ UNCHANGED << pc, exc, lines, all_text, total_confidence >>
    /\ UNCHANGED << argv, image_path, stdout, stderr, exitCode, handledBy,
                    imported, device, ocr, attempts, tierResult, ocrCalls, result >>

\* the Shape B loop is exhausted
ShapeBEnd ==
    /\ pc = "shapeB"
    /\ result.items[1].shape = "B"
    /\ ~(i <= Len(result.items[1].entries))
    /\ pc' = "finish"
    /\ UNCHANGED << argv, image_path, stdout, stderr, exitCode, exc, handledBy,
                    imported, locals >>

-----------------------------------------------------------------------------
(* Averaging, joining and the success object *)

RECURSIVE Pow10(_)
Pow10(n) == IF n = 0 THEN 1 ELSE 10 * Pow10(n - 1)

AvgConfidenceUnscaled(total, n) == IF n > 0 THEN << total, n >> ELSE << 0, 1 >>

\* (total_confidence / len(lines) * 100) if lines else 0, as the exact
\* fraction << numerator, denominator >> in 1/ScoreDen units
AvgConfidence(total, n) == IF n > 0 THEN << total * Percent, n >> ELSE << 0, 1 >>

\* round(x, 2) of the exact fraction x, in hundredths; a tie goes to the
\* even neighbour
Round2(x) ==
    LET num == x[1] * Pow10(Decimals)
        den == x[2] * ScoreDen
        q   == num \div den
        r   == num - q * den
    IN  IF 2 * r < den THEN q
        ELSE IF 2 * r > den THEN q + 1
        ELSE IF q % 2 = 0 THEN q ELSE q + 1

RECURSIVE Join(_)
\* '\n'.join(all_text)
Join(texts) ==
    IF Len(texts) = 0 THEN ""
    ELSE IF Len(texts) = 1 THEN texts[1]
    ELSE texts[1] \o "\n" \o Join(Tail(texts))

\* json.dumps accepts lists and floats, not a numpy array
Serializable(ls) == \A k \in 1..Len(ls) : ls[k].bbox # "ndarray"

\* the output dictionary of the normal success path
Output ==
    [ success    |-> TRUE,
      text       |-> Join(all_text),
      confidence |-> Round2(AvgConfidence(total_confidence, Len(lines))),
      lines      |-> lines,
      engine     |-> "PaddleOCR",
      device     |-> device ]

\* avg_confidence, full_text, output; print(json.dumps(output)); sys.exit(0)
Finish ==
    /\ pc = "finish"
    /\ IF Serializable(lines)
       THEN /\ WriteAll(<< ToJson(JsonItem(Output)) >>)
            /\ exc' = SysExit(0, "finish")
       ELSE /\ exc' = Raise("TypeError", "serialize")
            /\ UNCHANGED << stdout, stderr >>
    /\ pc' = "unwind"
    /\ UNCHANGED << argv, image_path, exitCode, handledBy, imported, locals >>

-----------------------------------------------------------------------------
(* The except clauses of the outer try block, in source order *)

\* except ImportError as e: the object goes to both streams, sys.exit(1)
HandleImportError ==
    /\ pc = "unwind"
    /\ IsImportError(exc.cls)
    /\ LET error_details == "PaddleOCR not installed: " \o exc.msg \o InstallHint
       IN  WriteAll(<< ToDiag(JsonItem(FailureObj(error_details))),
                       ToJson(JsonItem(FailureObj(error_details))) >>)
    /\ handledBy' = "ImportError"
    /\ exitCode' = 1
    /\ pc' = "done"
    /\ UNCHANGED << argv, image_path, exc, imported, locals >>

\* except Exception as e: details with the trace to stderr, the summary to
\* stdout, sys.exit(1)
HandleException ==
    /\ pc = "unwind"
    /\ ~IsImportError(exc.cls)
    /\ IsException(exc.cls)
    /\ LET summary       == exc.cls \o ": " \o exc.msg
           error_details == summary \o "\nTraceback (most recent call last): " \o exc.origin
       IN  WriteAll(<< ToDiag(JsonItem(FailureObj(error_details))),
                       ToJson(JsonItem(FailureObj(summary))) >>)
    /\ handledBy' = "Exception"
    /\ exitCode' = 1
    /\ pc' = "done"
    /\ UNCHANGED << argv, image_path, exc, imported, locals >>

\* SystemExit matches neither clause: it leaves main() and ends the process
\* with its code
Exit ==
    /\ pc = "unwind"
    /\ ~IsImportError(exc.cls)
    /\ ~IsException(exc.cls)
    /\ exitCode' = exc.code
    /\ pc' = "done"
    /\ UNCHANGED << argv, image_path, stdout, stderr, exc, handledBy, imported, locals >>

-----------------------------------------------------------------------------

Next ==
    \/ NoArgument
    \/ ReadArgument
    \/ ImageNotFound
    \/ ImageFound
    \/ ImportLibrary
    \/ Tier1
    \/ SkipCpu
    \/ Tier2
    \/ Tier3
    \/ Recognize
    \/ EmptyResult
    \/ StartNormalize
    \/ ShapeAIter
    \/ ShapeAEnd
    \/ ShapeBNotIterable
    \/ ShapeBIter
    \/ ShapeBEnd
    \/ Finish
    \/ HandleImportError
    \/ HandleException
    \/ Exit

Spec == Init /\ [][Next]_vars

-----------------------------------------------------------------------------
(* Vocabulary of the properties *)

Done == pc = "done"

\* the objects on standard output
StdoutObjs == { stdout[k].body : k \in { j \in 1..Len(stdout) : stdout[j].kind = "json" } }

\* exactly one object on standard output, and it is a failure object
OneFailure ==
    /\ Len(stdout) = 1
    /\ stdout[1].kind = "json"
    /\ ~stdout[1].body.success

\* exactly one object on standard output, and it is a success object
OneSuccess ==
    /\ Len(stdout) = 1
    /\ stdout[1].kind = "json"
    /\ stdout[1].body.success

Raised(t) == tierResult[t] \in RaisedClasses

Attempted(t) == \E k \in 1..Len(attempts) : attempts[k] = t

IsPrefix(s, t) == Len(s) <= Len(t) /\ \A k \in 1..Len(s) : s[k] = t[k]

\* ocr.ocr has returned a value (held in result)
Returned == ocrCalls = 1 /\ exc.origin # "recognize"

\* the error message ends with the installation guidance
HasGuidance(err) ==
    /\ Len(err) >= Len(InstallHint)
    /\ SubSeq(err, Len(err) - Len(InstallHint) + 1, Len(err)) = InstallHint

RECURSIVE SumConfidence(_)
SumConfidence(ls) ==
    IF Len(ls) = 0 THEN 0 ELSE ls[1].confidence + SumConfidence(Tail(ls))

LineTexts(ls) == [k \in 1..Len(ls) |-> ls[k].text]

-----------------------------------------------------------------------------
(* C1 *)

\* C1: when the process has exited, on whatever path, exactly one JSON object
\* has been written to standard output; nothing but JSON objects is ever
\* written there, and the progress text and the duplicated error object are
\* on standard error.
C1_OneJsonOnStdout ==
    /\ Len(stdout) <= 1
    /\ \A k \in 1..Len(stdout) : stdout[k].kind = "json"
    /\ Done => Len(stdout) = 1
    /\ Attempted(1) => \E k \in 1..Len(stderr) : stderr[k].kind = "text"
    /\ handledBy # "none" =>
          Cardinality({ k \in 1..Len(stderr) : stderr[k].kind = "json" }) = 1

C1_Witness ==
    /\ Done
    /\ handledBy = "Exception"
    /\ exc.origin = "serialize"
    /\ Len(stdout) = 1
    /\ Len(stderr) >= 3

-----------------------------------------------------------------------------
(* C2 *)

\* C2: at exit the exit code is 0 exactly when the object on standard output
\* has success = true and 1 exactly when it has success = false; every
\* failure path exits with 1, the zero-detections path with 0, and a
\* SystemExit raised by sys.exit(0) inside the try block is handled by no
\* except clause.
C2_ExitCodeAgrees ==
    /\ exc.cls = "SystemExit" => handledBy = "none"
    /\ Done =>
         /\ exitCode \in {0, 1}
         /\ Len(stdout) >= 1
         /\ \A k \in 1..Len(stdout) : (exitCode = 0) <=> stdout[k].body.success
         /\ \A k \in 1..Len(stdout) : (exitCode = 1) <=> ~stdout[k].body.success
         /\ exc.cls = "SystemExit" => exitCode = exc.code
         /\ (\/ Len(argv) < 2
             \/ image_path \notin FileSystem
             \/ imported \in RaisedClasses
             \/ IsException(exc.cls)) => exitCode = 1
         /\ (Returned /\ IsEmptyResult(result)) => exitCode = 0

C2_Witness ==
    /\ Done
    /\ exitCode = 0
    /\ exc = SysExit(0, "finish")
    /\ OneSuccess
    /\ Len(lines) > 0

-----------------------------------------------------------------------------
(* C3 *)

\* C3: the constructor calls are made in the order tier 1, tier 2, tier 3
\* with none repeated; tier 2 is attempted if and only if tier 1 raised,
\* tier 3 only after tier 2 raised; ocr.ocr is called at most once and only
\* with an engine that some tier returned.
C3_TierOrder ==
    /\ IsPrefix(attempts, << 1, 2, 3 >>)
    /\ imported = "ok" /\ pc # "tier1" => Attempted(1)
    /\ Attempted(2) => Raised(1)
    /\ (Raised(1) /\ pc # "tier2") => Attempted(2)
    /\ Attempted(3) => Raised(2)
    /\ ocrCalls <= 1
    /\ ocrCalls = 1 =>
         /\ ocr # "None"
         /\ \E t \in 1..3 : tierResult[t] = "ok"
         /\ \A t \in 1..3 : tierResult[t] = "ok" => \A u \in (t+1)..3 : ~Attempted(u)

C3_Witness ==
    /\ Done
    /\ attempts = << 1, 2, 3 >>
    /\ tierResult[3] = "ok"
    /\ ocrCalls = 1

-----------------------------------------------------------------------------
(* C4 *)

\* an exception raised by a constructor call was reported by a handler
InitErrorReported ==
    /\ Done
    /\ handledBy # "none"
    /\ exc.origin \in {"tier1", "tier2", "tier3"}

\* C4 as stated: a failure of tier 1 or tier 2 is always retried at the next
\* tier, and an initialization error is reported only after all three tiers
\* have been attempted and have failed.
C4_Original ==
    /\ (Done /\ Raised(1)) => Attempted(2)
    /\ (Done /\ Raised(2)) => Attempted(3)
    /\ InitErrorReported =>
         /\ attempts = << 1, 2, 3 >>
         /\ \A t \in 1..3 : Raised(t)

\* C4 as amended: a failure of tier 1 is always retried at tier 2 and a
\* failure of tier 2 of class AttributeError at tier 3; an initialization
\* error is reported (failure JSON, exit code 1) only after tiers 1 and 2
\* have both been attempted and have failed, and then tier 3 has failed too
\* unless tier 2 raised something other than AttributeError, in which case
\* tier 3 was never tried.
C4_InitErrorAfterFallback ==
    /\ (Done /\ Raised(1)) => Attempted(2)
    /\ (Done /\ Raised(2) /\ IsAttributeError(tierResult[2])) => Attempted(3)
    /\ InitErrorReported =>
         /\ OneFailure
         /\ exitCode = 1
         /\ Raised(1)
         /\ Raised(2)
         /\ IF IsAttributeError(tierResult[2])
            THEN attempts = << 1, 2, 3 >> /\ Raised(3)
            ELSE attempts = << 1, 2 >>

C4_Witness ==
    /\ InitErrorReported
    /\ exc.origin = "tier2"
    /\ tierResult[2] = "RuntimeError"
    /\ attempts = << 1, 2 >>

-----------------------------------------------------------------------------
(* C5 *)

\* a run ended in a top-level handler with a failure object, exit code 1 and
\* no recognition call
FailedBeforeRecognition ==
    /\ handledBy # "none"
    /\ OneFailure
    /\ exitCode = 1
    /\ ocrCalls = 0

\* C5: whatever tier 1 raises is absorbed and tier 2 is tried; at tier 2 only
\* AttributeError leads to tier 3; any other exception of tier 2 and any
\* exception of tier 3 reaches a top-level handler: failure JSON, exit code 1
\* and no recognition call.
C5_AbsorbedClasses ==
    /\ \A cls \in RaisedClasses :
         (tierResult[1] = cls /\ pc \notin {"tier2", "unwind"}) =>
             /\ Attempted(2)
             /\ exc.origin # "tier1"
    /\ (tierResult[2] = "AttributeError" /\ pc \notin {"tier3", "unwind"}) =>
             /\ Attempted(3)
             /\ exc.origin # "tier2"
    /\ (Raised(2) /\ tierResult[2] # "AttributeError") =>
             /\ ~Attempted(3)
             /\ exc.origin = "tier2"
             /\ Done => FailedBeforeRecognition
    /\ Raised(3) =>
             /\ exc.origin = "tier3"
             /\ Done => FailedBeforeRecognition

C5_Witness ==
    /\ Done
    /\ tierResult[1] = "RuntimeError"
    /\ tierResult[2] = "AttributeError"
    /\ tierResult[3] = "ImportError"
    /\ handledBy = "ImportError"
    /\ FailedBeforeRecognition

-----------------------------------------------------------------------------
(* C6 *)

\* C6 as stated: every success object on standard output has a device field
\* that is "gpu" or "cpu", "gpu" exactly when tier 1 returned the engine and
\* "cpu" exactly when tier 2 or tier 3 did, the zero-detections object
\* included.
C6_DeviceAlwaysReported ==
    \A obj \in StdoutObjs :
        obj.success =>
            /\ "device" \in DOMAIN obj
            /\ obj.device \in {"gpu", "cpu"}
            /\ (obj.device = "gpu") <=> (tierResult[1] = "ok")
            /\ (obj.device = "cpu") <=> (tierResult[2] = "ok" \/ tierResult[3] = "ok")

-----------------------------------------------------------------------------
(* C7 *)

\* None, an empty list, a Shape A object without texts, or a legacy list
\* whose per-image entry is None or empty
IsAbsentOrEmpty(r) ==
    \/ r.isNone
    \/ Len(r.items) = 0
    \/ /\ r.items[1].shape = "A"
       /\ Len(r.items[1].rec_texts) = 0
    \/ r.items[1].shape = "None"
    \/ /\ r.items[1].shape = "B"
       /\ Len(r.items[1].entries) = 0

\* C7 as stated: when ocr.ocr returns an empty or absent result the run ends
\* with one success object with no lines, confidence 0 and text "", and exit
\* code 0.
C7_EmptyResultIsSuccess ==
    (Done /\ Returned /\ IsAbsentOrEmpty(result)) =>
        /\ OneSuccess
        /\ stdout[1].body.lines = << >>
        /\ stdout[1].body.confidence = 0
        /\ stdout[1].body.text = ""
        /\ exitCode = 0
        /\ handledBy = "none"

-----------------------------------------------------------------------------
(* C8 *)

\* a legacy entry that carries a text and a confidence
WellFormed(entry) ==
    /\ entry.hasLen
    /\ Len(entry.line) >= 2
    /\ Len(entry.line[2]) >= 2

\* the lines the engine's result stands for, in detection order
ExpectedLines(img) ==
    IF img.shape = "A"
    THEN [k \in 1..Min(Len(img.rec_texts), Len(img.rec_scores)) |->
            [ text       |-> img.rec_texts[k],
              confidence |-> img.rec_scores[k] * Percent,
              bbox       |-> IF k <= Len(img.rec_polys) THEN "list" ELSE "[]" ]]
    ELSE LET ok == SelectSeq(img.entries, WellFormed)
         IN  [k \in 1..Len(ok) |->
                [ text       |-> ok[k].line[2][1],
                  confidence |-> ok[k].line[2][2] * Percent,
                  bbox       |-> ok[k].line[1] ]]

\* C8: in every success object text is the newline-join of the texts of
\* lines, in order, and lines are the engine's detections in detection order,
\* nothing reordered, dropped or merged: for Shape A the first
\* min(|texts|, |scores|) entries, with an empty bbox where there is no
\* polygon, for Shape B the well-formed entries.
C8_TextIsJoinOfLines ==
    \A obj \in StdoutObjs :
        obj.success =>
            /\ obj.text = Join(LineTexts(obj.lines))
            /\ (Returned /\ ~IsEmptyResult(result)) =>
                   obj.lines = ExpectedLines(result.items[1])

C8_Witness ==
    /\ Done
    /\ OneSuccess
    /\ Returned
    /\ ~IsEmptyResult(result)
    /\ result.items[1].shape = "A"
    /\ Len(result.items[1].rec_scores) > Len(result.items[1].rec_polys)
    /\ Len(stdout[1].body.lines) = 2
    /\ stdout[1].body.lines[1].text = stdout[1].body.lines[2].text
    /\ stdout[1].body.text = "a\na"

-----------------------------------------------------------------------------
(* C9 *)

\* C9: in every success object with N lines, confidence is the mean of the N
\* line confidences rounded to 2 decimals, and is 0 with text "" when N = 0;
\* when the loops are over, the running total and all_text cover exactly the
\* entries that are in lines.
C9_ConfidenceIsMean ==
    /\ \A obj \in StdoutObjs :
          obj.success =>
              IF Len(obj.lines) = 0
              THEN obj.confidence = 0 /\ obj.text = ""
              ELSE obj.confidence = Round2(<< SumConfidence(obj.lines), Len(obj.lines) >>)
    /\ pc = "finish" =>
          /\ total_confidence * Percent = SumConfidence(lines)
          /\ Len(all_text) = Len(lines)

C9_Witness ==
    /\ Done
    /\ OneSuccess
    /\ Returned
    /\ ~IsEmptyResult(result)
    /\ result.items[1].shape = "B"
    /\ Len(stdout[1].body.lines) = 2
    /\ stdout[1].body.lines[1].confidence # stdout[1].body.lines[2].confidence
    /\ stdout[1].body.confidence * Len(stdout[1].body.lines) * ScoreDen
         # SumConfidence(stdout[1].body.lines) * Pow10(Decimals)

-----------------------------------------------------------------------------
(* C10 *)

\* C10 as stated: without an argument or with a path that does not exist the
\* run fails (naming the path) with exit code 1 before the import or any
\* constructor call; when the import fails the run fails with the
\* installation guidance and exit code 1 without a constructor or
\* recognition call; and the guidance is printed only when the import itself
\* failed.
C10_ValidationThenImport ==
    /\ (Done /\ Len(argv) < 2) =>
          /\ OneFailure
          /\ exitCode = 1
          /\ imported = "untried"
          /\ attempts = << >>
    /\ (Done /\ Len(argv) >= 2 /\ argv[2] \notin FileSystem) =>
          /\ OneFailure
          /\ stdout[1].body.error = "Image not found: " \o argv[2]
          /\ exitCode = 1
          /\ imported = "untried"
          /\ attempts = << >>
    /\ (Done /\ imported \in RaisedClasses) =>
          /\ OneFailure
          /\ exitCode = 1
          /\ attempts = << >>
          /\ ocrCalls = 0
    /\ (Done /\ IsImportError(imported)) => HasGuidance(stdout[1].body.error)
    /\ \A obj \in StdoutObjs :
          (~obj.success /\ HasGuidance(obj.error)) => imported \in RaisedClasses

====
